---- MODULE Spec2Model ----
(***************************************************************************)
(* Match lifecycle and court allocation of the pickleball tournament app.  *)
(*                                                                         *)
(* The database holds one document per match and one per court.  Actors    *)
(* (participants and organizers) work from independent sessions.  A call   *)
(* is checked once, against the documents as they are when the control is  *)
(* used (MatchCard.tsx, CourtAllocation.tsx), and then issues its writes   *)
(* through services/firebase.ts: updateMatchScore and updateCourt, each an *)
(* unconditional updateDoc of ONE document.  Between the check and each    *)
(* write any other session may act.                                        *)
(*                                                                         *)
(* The parent component that receives onUpdateScore, onStartMatch,         *)
(* onAssignMatchToCourt, onStartMatchOnCourt and onFinishMatchOnCourt is   *)
(* not part of the sources; what it writes is taken from the specification *)
(* (sections 4.1 and 4.2).                                                 *)
(*                                                                         *)
(* Two further parts of the application are modelled on their own: the     *)
(* event selection of the registration wizard (TournamentEventSelection)   *)
(* and the role management of services/firebase.ts (updateRole).           *)
(***************************************************************************)
EXTENDS Integers, Sequences, FiniteSets, TLC

(* ------------------------------ bounds -------------------------------- *)

\* number of calls that may be between their check and their last write
MaxInFlight == 2
\* number of calls accepted in a run of the two-match, two-court tournament
MaxCalls == 3
\* Date.now() readings range over 1..MaxClock (0 is the creation stamp)
MaxClock == 1

(* ---------------------------- population ------------------------------ *)

Matches == {"m1", "m2"}
Courts == {"cA", "cB"}
Actors == {"p1", "p2", "p3", "org"}

\* the budget of a run whose number of calls is not limited
Unlimited == MaxCalls + 1

\* absent string-valued field (courtId, submittedBy, disputeReason, currentMatchId)
Null == "null"
\* absent score (score1 / score2 are number | null)
NoScore == << >>
\* the result of parseInt on text without a leading number
NaN == << >>

Num(n) == << n >>

\* useAuth().isOrganizer
isOrganizer(a) == a = "org"

\* the players of the two teams of a match
TeamPlayers(m) ==
  IF m = "m1" THEN {"p1", "p2"} ELSE {"p2", "p3"}

isParticipant(a, m) == a \in TeamPlayers(m)

\* texts an <input type="number"> can hold, as sequences of characters
InputTexts == { << >>, << "0" >>, << "1" >>, << "-", "1" >> }

\* what window.prompt can return: null (cancelled), the empty text, a text
PromptResults == { Null, "", "wrong side" }

VARIABLES match, court, pending, budget

\* the registration wizard's event selection (TournamentEventSelection): the
\* props initialDivisionId and userProfile, the component state regData and
\* loading, the position of initRegistration, the stored registration
\* document and the saveRegistration calls on their way to it
VARIABLES initialDivisionId, userProfile, regData, loading, initAt,
          registration, saving

\* role management: one user document, the updateRole calls between their
\* start and their write, the number of calls made, and for each role the
\* action of the call on it that completed last
VARIABLES userDoc, roleCalls, roleCallsMade, lastCompleted

tournamentVars == << match, court, pending, budget >>

selectionVars ==
  << initialDivisionId, userProfile, regData, loading, initAt,
     registration, saving >>

roleVars == << userDoc, roleCalls, roleCallsMade, lastCompleted >>

vars == << tournamentVars, selectionVars, roleVars >>

(* ------------------------------ parsing ------------------------------- *)

DigitChars == << "0", "1", "2", "3", "4", "5", "6", "7", "8", "9" >>

IsDigit(ch) == \E i \in 1..10 : DigitChars[i] = ch

DigitValue(ch) == (CHOOSE i \in 1..10 : DigitChars[i] = ch) - 1

RECURSIVE ParseDigits(_, _, _)
ParseDigits(s, i, acc) ==
  IF i > Len(s) \/ ~IsDigit(s[i])
  THEN acc
  ELSE ParseDigits(s, i + 1, acc * 10 + DigitValue(s[i]))

\* parseInt(s, 10): optional sign, then the longest run of digits
parseInt(s) ==
  LET signed == Len(s) > 0 /\ s[1] \in {"-", "+"}
      start == IF signed THEN 2 ELSE 1
  IN  IF start > Len(s) \/ ~IsDigit(s[start])
      THEN NaN
      ELSE IF signed /\ s[1] = "-"
           THEN Num(0 - ParseDigits(s, start, 0))
           ELSE Num(ParseDigits(s, start, 0))

\* const parsedS1 = s1 === '' ? NaN : parseInt(s1, 10)
parsed(s) == IF s = << >> THEN NaN ELSE parseInt(s)

(* --------------------------- MatchCard.tsx ---------------------------- *)

\* a slip: one parsed score is enough
scoresFilled_Either(t1, t2) == parsed(t1) # NaN \/ parsed(t2) # NaN

\* const scoresFilled = !Number.isNaN(parsedS1) && !Number.isNaN(parsedS2)
scoresFilled(t1, t2) == parsed(t1) # NaN /\ parsed(t2) # NaN

canSubmit(m, t1, t2) ==
  /\ scoresFilled(t1, t2)
  /\ match[m].status # "completed"
  /\ match[m].status # "disputed"
  /\ match[m].status # "pending_confirmation"

canResolveSubmit(a, m, t1, t2) ==
  scoresFilled(t1, t2) /\ match[m].status = "disputed" /\ isOrganizer(a)

hasScore(m) == match[m].score1 # NoScore /\ match[m].score2 # NoScore

\* a slip: the fallback replaces the stored score
orZero_Zero(s) == Num(0)

\* match.score1 ?? 0
orZero(s) == IF s = NoScore THEN Num(0) ELSE s


\* a slip: the Start button is rendered whatever the status
StartShown_AnyStatus(m, canStart) == canStart

\* a slip: the Start button stays while the match is not completed
StartShown_NotCompleted(m, canStart) ==
  match[m].status # "completed" /\ canStart

\* the Start button: match.status === 'pending' && canStart && onStartMatch
StartShown(m, canStart) == match[m].status = "pending" /\ canStart

\* the score inputs and the submit button: pending or in_progress
SubmitShown(m) == match[m].status \in {"pending", "in_progress"}

\* a slip: Confirm / Dispute rendered outside the canConfirm block
ConfirmShown_Ungated(m, canConfirm) ==
  match[m].status = "pending_confirmation" /\ hasScore(m)

\* Confirm / Dispute: pending_confirmation && hasScore, inside it canConfirm
ConfirmShown(m, canConfirm) ==
  match[m].status = "pending_confirmation" /\ hasScore(m) /\ canConfirm

\* a slip: the branches of the ternary are swapped
ResolveShown_Swapped(a, m) == match[m].status = "disputed" /\ ~isOrganizer(a)

\* the organiser's override inputs: disputed && isOrganizer
ResolveShown(a, m) == match[m].status = "disputed" /\ isOrganizer(a)

\* reason || undefined: a cancelled prompt and the empty text give no reason
reasonOrUndefined(r) == IF r = Null \/ r = "" THEN Null ELSE r

(* ------------------------ CourtAllocation.tsx ------------------------- *)

\* the match shown on a court: matches.find(m => m.id === court.currentMatchId)
getMatchForCourt(c) ==
  IF court[c].currentMatchId \in DOMAIN match
  THEN court[c].currentMatchId
  ELSE Null

\* a slip: every court is offered
availableCourts_All == DOMAIN court

\* courts.filter(c => c.status === "AVAILABLE")
availableCourts == { c \in DOMAIN court : court[c].status = "AVAILABLE" }

\* Start Match is offered on an ASSIGNED court, Finish Match on an IN_USE one
StartOnCourtShown(c) == court[c].status = "ASSIGNED"

FinishOnCourtShown(c) == court[c].status = "IN_USE"

(* ------- the parts of the parent component, from sections 4 and 7 ------ *)

\* capability to start: a participant of the match or an organizer
canCurrentUserStart(a, m) == isParticipant(a, m) \/ isOrganizer(a)

\* capability to confirm or dispute: a participant or an organizer, other
\* than the submitter (self-confirmation is rejected)
canCurrentUserConfirm(a, m) ==
  (isParticipant(a, m) \/ isOrganizer(a)) /\ a # match[m].submittedBy

\* the occupancy projection of a match (section 4.2)
DerivedStatus(m) ==
  CASE match[m].status = "completed" -> "COMPLETED"
    [] match[m].status \in {"in_progress", "pending_confirmation", "disputed"}
         -> "IN_PROGRESS"
    [] match[m].status = "pending" /\ match[m].courtId = Null -> "WAITING"
    [] OTHER -> "ASSIGNED"

Negative(s) == s # NaN /\ s[1] < 0

\* a slip: a tie passes
ValidScores_TieAllowed(s1, s2) == ~Negative(s1) /\ ~Negative(s2)

\* the scores of a decided match: neither negative, and not equal
ValidScores(s1, s2) == ~Negative(s1) /\ ~Negative(s2) /\ s1 # s2

\* the statuses an operation on a match is legal from
LegalFrom(op) ==
  CASE op = "startMatch" -> {"pending"}
    [] op = "submitScore" -> {"pending", "in_progress"}
    [] op \in {"confirmScore", "disputeScore"} -> {"pending_confirmation"}
    [] op = "resolveDispute" -> {"disputed"}

\* whether the actor has the capability an operation on a match needs
Authorized(a, m, op) ==
  CASE op = "startMatch" -> canCurrentUserStart(a, m)
    [] op = "submitScore" -> TRUE
    [] op \in {"confirmScore", "disputeScore"} -> canCurrentUserConfirm(a, m)
    [] op = "resolveDispute" -> isOrganizer(a)

\* the error kind of a refused operation on a match (section 7)
MatchOpError(a, m, op) ==
  IF match[m].status \notin LegalFrom(op) THEN "InvalidTransition"
  ELSE IF ~Authorized(a, m, op) THEN "Unauthorized"
  ELSE "InvalidInput"

MatchWrite(m, updates) == [coll |-> "matches", id |-> m, data |-> updates]

CourtWrite(c, data) == [coll |-> "courts", id |-> c, data |-> data]

\* a call passed its check: its writes are now on their way
Accept(a, op, m, c, writes) ==
  /\ Cardinality(pending) < MaxInFlight
  /\ budget > 0
  /\ budget' = IF budget = Unlimited THEN budget ELSE budget - 1
  /\ pending' = pending \cup
       {[actor |-> a, op |-> op, match |-> m, court |-> c,
         writes |-> writes, written |-> 0]}
  /\ UNCHANGED << match, court, selectionVars, roleVars >>

\* a call is refused: the handler returns, the caller gets the error kind,
\* nothing is written
Reject(a, op, kind) == UNCHANGED vars

\* MatchLifecycle.submitScore
submitScore(a, m, s1, s2) ==
  IF ValidScores(s1, s2)
  THEN Accept(a, "submitScore", m, Null,
         << MatchWrite(m, [score1 |-> s1, score2 |-> s2, submittedBy |-> a,
                           status |-> "pending_confirmation"]) >>)
  ELSE Reject(a, "submitScore", "InvalidInput")

\* MatchLifecycle.resolveDispute
resolveDispute(a, m, s1, s2) ==
  IF ValidScores(s1, s2)
  THEN Accept(a, "resolveDispute", m, Null,
         << MatchWrite(m, [score1 |-> s1, score2 |-> s2,
                           status |-> "completed"]) >>)
  ELSE Reject(a, "resolveDispute", "InvalidInput")

\* a slip: the confirmation also releases the match from its court
confirmScore_Unbinds(a, m) ==
  Accept(a, "confirmScore", m, Null,
    << MatchWrite(m, [status |-> "completed", courtId |-> Null]) >>)

\* a slip: the confirmation records the confirming actor as the submitter
confirmScore_TakesOver(a, m) ==
  Accept(a, "confirmScore", m, Null,
    << MatchWrite(m, [status |-> "completed", submittedBy |-> a]) >>)

\* MatchLifecycle.confirmScore
confirmScore(a, m) ==
  Accept(a, "confirmScore", m, Null,
    << MatchWrite(m, [status |-> "completed"]) >>)

\* a slip: the dispute wipes the score it disputes
disputeScore_ClearsScore(a, m, reason) ==
  Accept(a, "disputeScore", m, Null,
    << MatchWrite(m, [status |-> "disputed", disputeReason |-> reason,
                      score1 |-> NoScore, score2 |-> NoScore]) >>)

\* MatchLifecycle.disputeScore
disputeScore(a, m, reason) ==
  Accept(a, "disputeScore", m, Null,
    << MatchWrite(m,
         IF reason = Null
         THEN [status |-> "disputed"]
         ELSE [status |-> "disputed", disputeReason |-> reason]) >>)

\* a slip: the organizer's re-entered score is treated as a submission
onUpdateScore_AlwaysSubmits(a, m, s1, s2, action, reason) ==
  CASE action = "submit" -> submitScore(a, m, s1, s2)
    [] action = "confirm" -> confirmScore(a, m)
    [] action = "dispute" -> disputeScore(a, m, reason)

\* the callback the parent passes to MatchCard
onUpdateScore(a, m, s1, s2, action, reason) ==
  CASE action = "submit" ->
         IF match[m].status = "disputed"
         THEN resolveDispute(a, m, s1, s2)
         ELSE submitScore(a, m, s1, s2)
    [] action = "confirm" -> confirmScore(a, m)
    [] action = "dispute" -> disputeScore(a, m, reason)

\* MatchLifecycle.start
onStartMatch(a, m) ==
  Accept(a, "startMatch", m, Null,
    << MatchWrite(m, [status |-> "in_progress"]) >>)

\* the callbacks the parent passes to CourtAllocation (section 4.2); the
\* court is written first on assignment and release, the match first on start
onAssignMatchToCourt(a, m, c) ==
  Accept(a, "assignMatchToCourt", m, c,
    << CourtWrite(c, [status |-> "ASSIGNED", currentMatchId |-> m]),
       MatchWrite(m, [courtId |-> c]) >>)

onStartMatchOnCourt(a, c) ==
  LET m == getMatchForCourt(c)
  IN  IF m = Null THEN Reject(a, "startMatchOnCourt", "ResourceUnavailable")
      ELSE IF match[m].status # "pending"
      THEN Reject(a, "startMatchOnCourt", "InvalidTransition")
      ELSE IF ~canCurrentUserStart(a, m)
      THEN Reject(a, "startMatchOnCourt", "Unauthorized")
      ELSE Accept(a, "startMatchOnCourt", m, c,
             << MatchWrite(m, [status |-> "in_progress"]),
                CourtWrite(c, [status |-> "IN_USE"]) >>)

onFinishMatchOnCourt(a, c) ==
  LET m == getMatchForCourt(c)
  IN  IF m = Null THEN Reject(a, "finishMatchOnCourt", "ResourceUnavailable")
      ELSE IF match[m].status # "completed"
      THEN Reject(a, "finishMatchOnCourt", "InvalidTransition")
      ELSE Accept(a, "finishMatchOnCourt", m, c,
             << CourtWrite(c, [status |-> "AVAILABLE", currentMatchId |-> Null]),
                MatchWrite(m, [courtId |-> Null]) >>)

\* the error kind of a refused operation on a court
CourtOpError(a) ==
  IF ~isOrganizer(a) THEN "Unauthorized" ELSE "ResourceUnavailable"

(* -------------------------- the operations ---------------------------- *)

handleStartClick(a, m) ==
  IF StartShown(m, canCurrentUserStart(a, m))
  THEN onStartMatch(a, m)
  ELSE Reject(a, "startMatch", MatchOpError(a, m, "startMatch"))

handleSubmitClick(a, m, t1, t2) ==
  IF SubmitShown(m) /\ canSubmit(m, t1, t2)
  THEN onUpdateScore(a, m, parsed(t1), parsed(t2), "submit", Null)
  ELSE Reject(a, "submitScore", MatchOpError(a, m, "submitScore"))

handleResolveClick(a, m, t1, t2) ==
  IF ResolveShown(a, m) /\ canResolveSubmit(a, m, t1, t2)
  THEN onUpdateScore(a, m, parsed(t1), parsed(t2), "submit", Null)
  ELSE Reject(a, "resolveDispute", MatchOpError(a, m, "resolveDispute"))

handleConfirmClick(a, m) ==
  IF ConfirmShown(m, canCurrentUserConfirm(a, m)) /\ hasScore(m)
  THEN onUpdateScore(a, m, orZero(match[m].score1), orZero(match[m].score2),
                     "confirm", Null)
  ELSE Reject(a, "confirmScore", MatchOpError(a, m, "confirmScore"))

handleDisputeClick(a, m, r) ==
  IF ConfirmShown(m, canCurrentUserConfirm(a, m)) /\ hasScore(m)
  THEN onUpdateScore(a, m, orZero(match[m].score1), orZero(match[m].score2),
                     "dispute", reasonOrUndefined(r))
  ELSE Reject(a, "disputeScore", MatchOpError(a, m, "disputeScore"))

\* a slip: every match that is not finished is listed as waiting
waitingMatches_NotCompleted ==
  { m \in DOMAIN match : DerivedStatus(m) # "COMPLETED" }

\* const waitingMatches = matches.filter((m) => m.status === "WAITING")
waitingMatches == { m \in DOMAIN match : DerivedStatus(m) = "WAITING" }

\* an assign button: a WAITING match and an AVAILABLE court, on the
\* organizer's board
AssignMatchToCourt(a, m, c) ==
  IF isOrganizer(a) /\ m \in waitingMatches /\ c \in availableCourts
  THEN onAssignMatchToCourt(a, m, c)
  ELSE Reject(a, "assignMatchToCourt", CourtOpError(a))

StartMatchOnCourt(a, c) ==
  IF isOrganizer(a) /\ StartOnCourtShown(c)
  THEN onStartMatchOnCourt(a, c)
  ELSE Reject(a, "startMatchOnCourt", CourtOpError(a))

FinishMatchOnCourt(a, c) ==
  IF isOrganizer(a) /\ FinishOnCourtShown(c)
  THEN onFinishMatchOnCourt(a, c)
  ELSE Reject(a, "finishMatchOnCourt", CourtOpError(a))

\* organizer only; refused while the court has a bound match
MarkOutOfService(a, c) ==
  IF /\ isOrganizer(a)
     /\ court[c].currentMatchId = Null
     /\ court[c].status = "AVAILABLE"
  THEN Accept(a, "markOutOfService", Null, c,
         << CourtWrite(c, [status |-> "OUT_OF_SERVICE"]) >>)
  ELSE Reject(a, "markOutOfService", CourtOpError(a))

ReturnToService(a, c) ==
  IF isOrganizer(a) /\ court[c].status = "OUT_OF_SERVICE"
  THEN Accept(a, "returnToService", Null, c,
         << CourtWrite(c, [status |-> "AVAILABLE"]) >>)
  ELSE Reject(a, "returnToService", CourtOpError(a))

(* ------------------------ services/firebase.ts ------------------------ *)

\* updateDoc: the fields given replace the document's, the others stay
Merge(old, upd) ==
  [f \in DOMAIN old \cup DOMAIN upd |->
     IF f \in DOMAIN upd THEN upd[f] ELSE old[f]]

\* updateDoc(doc(db, 'matches', matchId), {...updates, lastUpdatedAt: Date.now()})
updateMatchScore(matchId, updates, now) ==
  /\ match' = [match EXCEPT
       ![matchId] = Merge(@, Merge(updates, [lastUpdatedAt |-> now]))]
  /\ UNCHANGED << court, budget, selectionVars, roleVars >>

\* updateDoc(doc(db, 'courts', courtId), {...data, updatedAt: Date.now()})
updateCourt(courtId, data, now) ==
  /\ court' = [court EXCEPT ![courtId] = Merge(@, data)]
  /\ UNCHANGED << match, budget, selectionVars, roleVars >>

\* the next write of a call in flight reaches the database
CommitWrite(k, now) ==
  LET w == Head(k.writes)
      rest == Tail(k.writes)
  IN  /\ k \in pending
      /\ IF w.coll = "matches"
         THEN updateMatchScore(w.id, w.data, now)
         ELSE updateCourt(w.id, w.data, now)
      /\ pending' = IF rest = << >>
                    THEN pending \ {k}
                    ELSE (pending \ {k}) \cup
                           {[k EXCEPT !.writes = rest, !.written = @ + 1]}

\* the next write of a call in flight is refused by the database (the
\* awaited updateDoc rejects): the call ends there with an error
FailWrite(k) ==
  /\ k \in pending
  /\ pending' = pending \ {k}
  /\ UNCHANGED << match, court, budget, selectionVars, roleVars >>

(* --------------------------- specification ---------------------------- *)

\* no registration: getRegistration found no document, regData is null
NoRegistration == [absent |-> TRUE]

\* the event selection is not mounted
NoSelection ==
  /\ initialDivisionId = Null
  /\ userProfile = Null
  /\ regData = NoRegistration
  /\ loading = TRUE
  /\ initAt = "unmounted"
  /\ registration = NoRegistration
  /\ saving = {}

\* the roles of UserProfile.roles
Roles == {"admin", "organizer", "player"}

\* nobody is changing the roles of the user
NoRoleCalls ==
  /\ userDoc = [exists |-> TRUE, roles |-> << >>]
  /\ roleCalls = {}
  /\ roleCallsMade = 0
  /\ lastCompleted = [r \in Roles |-> "none"]

\* a tournament with the given matches, all unplayed, and the given courts,
\* all free; no call in flight
InitWith(ms, cs, calls) ==
  /\ match = [m \in ms |->
       [status |-> "pending", score1 |-> NoScore, score2 |-> NoScore,
        courtId |-> Null, submittedBy |-> Null, disputeReason |-> Null,
        lastUpdatedAt |-> 0]]
  /\ court = [c \in cs |->
       [status |-> "AVAILABLE", currentMatchId |-> Null]]
  /\ pending = {}
  /\ budget = calls

\* one match and one court, any number of calls
Init == InitWith({"m1"}, {"cA"}, Unlimited) /\ NoSelection /\ NoRoleCalls

\* two matches and two courts, at most MaxCalls calls
InitTwo == InitWith(Matches, Courts, MaxCalls) /\ NoSelection /\ NoRoleCalls

\* any session may call any operation at any time
NextFor(sessions) ==
  \/ \E a \in sessions, m \in DOMAIN match : handleStartClick(a, m)
  \/ \E a \in sessions, m \in DOMAIN match, t1, t2 \in InputTexts :
       handleSubmitClick(a, m, t1, t2)
  \/ \E a \in sessions, m \in DOMAIN match, t1, t2 \in InputTexts :
       handleResolveClick(a, m, t1, t2)
  \/ \E a \in sessions, m \in DOMAIN match : handleConfirmClick(a, m)
  \/ \E a \in sessions, m \in DOMAIN match, r \in PromptResults :
       handleDisputeClick(a, m, r)
  \/ \E a \in sessions, m \in DOMAIN match, c \in DOMAIN court : AssignMatchToCourt(a, m, c)
  \/ \E a \in sessions, c \in DOMAIN court : StartMatchOnCourt(a, c)
  \/ \E a \in sessions, c \in DOMAIN court : FinishMatchOnCourt(a, c)
  \/ \E a \in sessions, c \in DOMAIN court : MarkOutOfService(a, c)
  \/ \E a \in sessions, c \in DOMAIN court : ReturnToService(a, c)
  \/ \E k \in pending, now \in 1..MaxClock : CommitWrite(k, now)
  \/ \E k \in pending : FailWrite(k)

\* the sessions of participants and of an organizer
Next == NextFor(Actors)

\* the sessions when no organizer is in attendance
Participants == { a \in Actors : ~isOrganizer(a) }

NextParticipants == NextFor(Participants)

Spec == Init /\ [][Next]_vars

SpecTwo == InitTwo /\ [][Next]_vars

\* one match and one court, any number of calls, no organizer among the
\* sessions
SpecParticipants == Init /\ [][NextParticipants]_vars

(* ------------------------------ claims -------------------------------- *)

\* the calls accepted by the step: new in pending, nothing written yet
Accepted == { k \in pending' \ pending : k.written = 0 }

\* C1: no court is occupied by two distinct matches and no match occupies two
\* distinct courts: two distinct bound matches have different courtIds, and
\* at most one court has currentMatchId = m for any match m.
C1_MutualExclusion ==
  /\ \A m1, m2 \in DOMAIN match :
       (m1 # m2 /\ match[m1].courtId # Null /\ match[m2].courtId # Null)
         => match[m1].courtId # match[m2].courtId
  /\ \A m \in DOMAIN match :
       Cardinality({c \in DOMAIN court : court[c].currentMatchId = m}) <= 1

\* C2: of two concurrent assignments of different WAITING matches to the same
\* AVAILABLE court exactly one succeeds and the other writes nothing: an
\* assignment never writes a court that another match has claimed.
C2_OneAssignSucceeds ==
  [][\A k \in pending : \A now \in 1..MaxClock :
       (k.op = "assignMatchToCourt" /\ k.written = 0 /\ CommitWrite(k, now))
         => court[k.court].currentMatchId \in {Null, k.match}]_vars

\* C3: of two concurrent confirmScore / disputeScore calls on a match in
\* pending_confirmation only the first committed one applies: a confirm or a
\* dispute never writes a match that is already completed or disputed.
C3_OneConfirmOrDisputeApplies ==
  [][\A k \in pending : \A now \in 1..MaxClock :
       (k.op \in {"confirmScore", "disputeScore"} /\ CommitWrite(k, now))
         => match[k.match].status \notin {"completed", "disputed"}]_vars

\* C4: for every court whose currentMatchId is a match m, m.courtId is that
\* court's id and m.status is not completed.
C4_CourtToMatch ==
  \A c \in DOMAIN court :
    court[c].currentMatchId # Null =>
      /\ court[c].currentMatchId \in DOMAIN match
      /\ match[court[c].currentMatchId].courtId = c
      /\ match[court[c].currentMatchId].status # "completed"

\* C5: for every match with a courtId whose status is not completed, the
\* court with that id has currentMatchId equal to the match's id, in every
\* state an observer can read.
C5_MatchToCourt ==
  \A m \in DOMAIN match :
    (match[m].courtId # Null /\ match[m].status # "completed")
      => court[match[m].courtId].currentMatchId = m

LifecycleEdges ==
  { << "pending", "in_progress" >>,
    << "pending", "pending_confirmation" >>,
    << "in_progress", "pending_confirmation" >>,
    << "pending_confirmation", "completed" >>,
    << "pending_confirmation", "disputed" >>,
    << "disputed", "completed" >> }

\* C7: a match's status changes only along the lifecycle edges; a completed
\* match never changes status again and a disputed match never returns to
\* pending_confirmation.
C7_StatusEdges ==
  [][\A m \in DOMAIN match :
       match'[m].status # match[m].status
         => << match[m].status, match'[m].status >> \in LifecycleEdges]_vars

\* C8: an operation that fails leaves every match and every court as they
\* were before the call: a call that ends in failure has written nothing.
C8_FailureWritesNothing ==
  [][\A k \in pending : FailWrite(k) => k.written = 0]_vars

\* the scores a call in flight is about to write, if it writes scores
WritesScores(k) == "score1" \in DOMAIN k.writes[1].data

C10_ScoresTogether ==
  \A m \in DOMAIN match :
    (match[m].score1 # NoScore) <=> (match[m].score2 # NoScore)

\* C10: a match with a submitted score
C10_Witness ==
  \E m \in DOMAIN match :
    match[m].score1 # NoScore /\ match[m].status = "pending_confirmation"

\* C11: finishOnCourt frees a court only when the court is IN_USE and its
\* bound match is completed: the write that makes the court AVAILABLE never
\* reaches a court that is not IN_USE or whose match's result is unresolved.
C11_FreedOnlyWhenCompleted ==
  [][\A k \in pending : \A now \in 1..MaxClock :
       (k.op = "finishMatchOnCourt" /\ k.written = 0 /\ CommitWrite(k, now))
         => /\ court[k.court].status = "IN_USE"
            /\ court[k.court].currentMatchId = k.match
            /\ match[k.match].status = "completed"]_vars

C13_SubmitThenConfirm ==
  [][/\ \A k \in Accepted :
          k.op = "confirmScore"
            => /\ match[k.match].status = "pending_confirmation"
               /\ hasScore(k.match)
               /\ k.actor # match[k.match].submittedBy
               /\ isParticipant(k.actor, k.match) \/ isOrganizer(k.actor)
     /\ \A k \in pending : \A now \in 1..MaxClock :
          (k.op = "submitScore" /\ CommitWrite(k, now))
            => /\ match'[k.match].score1 = k.writes[1].data.score1
               /\ match'[k.match].score2 = k.writes[1].data.score2
               /\ match'[k.match].submittedBy = k.actor
               /\ match'[k.match].status = "pending_confirmation"
     /\ \A k \in pending : \A now \in 1..MaxClock :
          (k.op = "confirmScore" /\ CommitWrite(k, now))
            => /\ match'[k.match].status = "completed"
               /\ match'[k.match].score1 = match[k.match].score1
               /\ match'[k.match].score2 = match[k.match].score2
               /\ match'[k.match].submittedBy = match[k.match].submittedBy]_vars

\* C13: a submitted score has been confirmed and nothing is in flight
C13_Witness ==
  \E m \in DOMAIN match :
    /\ match[m].status = "completed"
    /\ hasScore(m)
    /\ match[m].submittedBy \in TeamPlayers(m)
    /\ match[m].disputeReason = Null
    /\ pending = {}

\* what a reader of a match document learns about scores: score1 and score2
\* are its only fields that hold a score
ScoresOf(doc) == << doc.score1, doc.score2 >>

\* C14: submitScore(a, b), disputeScore, resolveDispute(c, d) ends with status
\* completed and scores c, d, and the disputed score a, b and its submitter
\* can still be read from the match: the write of a resolution sets the
\* organizer's scores, keeps submittedBy, and leaves the disputed score in
\* the document.
C14_DisputedScoreKept ==
  [][\A k \in pending : \A now \in 1..MaxClock :
       (k.op = "resolveDispute" /\ CommitWrite(k, now))
         => /\ match'[k.match].status = "completed"
            /\ match'[k.match].score1 = k.writes[1].data.score1
            /\ match'[k.match].score2 = k.writes[1].data.score2
            /\ match'[k.match].submittedBy = match[k.match].submittedBy
            /\ ScoresOf(match[k.match]) = ScoresOf(match'[k.match])]_vars

C17_NoSecondSubmission ==
  [][/\ \A k \in Accepted :
          k.op = "submitScore"
            => /\ match[k.match].status \in {"pending", "in_progress"}
               /\ k.writes[1].data.score1 # NoScore
               /\ k.writes[1].data.score2 # NoScore
               /\ k.writes[1].data.submittedBy = k.actor
               /\ k.writes[1].data.status = "pending_confirmation"
     /\ \A k \in pending : \A now \in 1..MaxClock :
          (k.op = "submitScore" /\ CommitWrite(k, now))
            => match[k.match].status \in {"pending", "in_progress"}]_vars

\* C18: startOnCourt is accepted only for an ASSIGNED court and is
\* all-or-nothing: a call that ends has either put the bound match in
\* in_progress and the court in IN_USE or changed neither, and no court is
\* ever IN_USE while its bound match is still pending.
C18_StartAllOrNothing ==
  [][/\ \A k \in Accepted :
          k.op = "startMatchOnCourt" => court[k.court].status = "ASSIGNED"
     /\ \A k \in pending :
          (k.op = "startMatchOnCourt" /\ FailWrite(k)) => k.written = 0
     /\ \A c \in DOMAIN court :
          (court'[c].status = "IN_USE"
             /\ court'[c].currentMatchId \in DOMAIN match)
            => match'[court'[c].currentMatchId].status # "pending"]_vars

\* C19: in every state, a court's currentMatchId is set if and only if the
\* court's status is ASSIGNED or IN_USE.
C19_BoundIffOccupied ==
  \A c \in DOMAIN court :
    (court[c].currentMatchId # Null)
      <=> (court[c].status \in {"ASSIGNED", "IN_USE"})

C21_OutOfServiceIsFree ==
  [][/\ \A k \in Accepted :
          k.op = "markOutOfService"
            => /\ court[k.court].currentMatchId = Null
               /\ court[k.court].status \notin {"ASSIGNED", "IN_USE"}
     /\ \A c \in DOMAIN court :
          court'[c].status = "OUT_OF_SERVICE"
            => court'[c].currentMatchId = Null
     /\ \A k \in pending : \A now \in 1..MaxClock :
          (k.op = "assignMatchToCourt" /\ k.written = 0 /\ CommitWrite(k, now))
            => court[k.court].status # "OUT_OF_SERVICE"]_vars

\* C22: in every state of every match, disputeReason is present only if the
\* status is disputed; it is absent once the match is completed.
C22_ReasonOnlyWhileDisputed ==
  \A m \in DOMAIN match :
    match[m].disputeReason # Null => match[m].status = "disputed"

C24_StampIncreases ==
  [][\A k \in pending : \A now \in 1..MaxClock :
       (Head(k.writes).coll = "matches" /\ CommitWrite(k, now))
         => /\ match'[Head(k.writes).id].lastUpdatedAt = now
            /\ match'[Head(k.writes).id].lastUpdatedAt
                 > match[Head(k.writes).id].lastUpdatedAt]_vars

\* the operations on a single match, and the court operations that leave
\* the lifecycle of the match alone
LifecycleOps ==
  {"startMatch", "submitScore", "confirmScore", "disputeScore",
   "resolveDispute"}

OccupancyOps ==
  {"assignMatchToCourt", "finishMatchOnCourt", "markOutOfService",
   "returnToService"}

C26_ViewsAgree ==
  \A c \in DOMAIN court :
    /\ court[c].status = "ASSIGNED"
         => /\ getMatchForCourt(c) # Null
            /\ match[getMatchForCourt(c)].status = "pending"
    /\ court[c].status = "IN_USE"
         => /\ getMatchForCourt(c) # Null
            /\ match[getMatchForCourt(c)].status # "pending"

\* a call in flight still has a write for court c
WillWriteCourt(c) ==
  \E k \in pending : \E i \in 1..Len(k.writes) :
    k.writes[i].coll = "courts" /\ k.writes[i].id = c

\* court c is ASSIGNED, its match has left pending (or is gone), and no write
\* for c is on its way: startOnCourt is refused for the match, every other
\* court operation is refused for the court, and no operation returns a
\* match to pending
StuckAssigned(c) ==
  /\ court[c].status = "ASSIGNED"
  /\ getMatchForCourt(c) = Null \/ match[getMatchForCourt(c)].status # "pending"
  /\ ~WillWriteCourt(c)

\* once a court is stuck in ASSIGNED it stays so, whatever is called
StuckAssignedForever ==
  [][\A c \in DOMAIN court : StuckAssigned(c) => StuckAssigned(c)']_vars

\* C27: no court is ever stuck: from every state in which a court is ASSIGNED
\* or IN_USE some sequence of operations returns it to AVAILABLE, also when
\* the bound match was started, scored or completed from the match card
\* before startOnCourt; so no state is reached in which a court is ASSIGNED
\* for good.
C27_NoCourtStuck ==
  \A c \in DOMAIN court : ~StuckAssigned(c)

\* actor a has a control on the card of match m that would be accepted now
CanAct(a, m) ==
  \/ StartShown(m, canCurrentUserStart(a, m))
  \/ \E t1, t2 \in InputTexts :
       /\ SubmitShown(m) /\ canSubmit(m, t1, t2)
       /\ ValidScores(parsed(t1), parsed(t2))
  \/ ConfirmShown(m, canCurrentUserConfirm(a, m)) /\ hasScore(m)
  \/ \E t1, t2 \in InputTexts :
       /\ ResolveShown(a, m) /\ canResolveSubmit(a, m, t1, t2)
       /\ ValidScores(parsed(t1), parsed(t2))

\* a call in flight still has a write for match m
WillWriteMatch(m) ==
  \E k \in pending : \E i \in 1..Len(k.writes) :
    k.writes[i].coll = "matches" /\ k.writes[i].id = m

\* match m is not completed, none of the sessions has an operation on it
\* that would be accepted, and no write for it is on its way
StuckMatch(m, sessions) ==
  /\ match[m].status # "completed"
  /\ \A a \in sessions : ~CanAct(a, m)
  /\ ~WillWriteMatch(m)

\* once a match is stuck for the participants it stays so
StuckMatchForever ==
  [][\A m \in DOMAIN match :
       StuckMatch(m, Participants) => StuckMatch(m, Participants)']_vars

RetriedOps ==
  {"startMatch", "submitScore", "confirmScore", "disputeScore",
   "resolveDispute", "assignMatchToCourt", "startMatchOnCourt",
   "finishMatchOnCourt"}

\* operation op, called now by actor a on match m or court c, would be
\* accepted: its control is offered and the checks of its callback pass
Readmitted(a, op, m, c) ==
  CASE op = "startMatch" -> StartShown(m, canCurrentUserStart(a, m))
    [] op = "submitScore" ->
         \E t1, t2 \in InputTexts :
           /\ SubmitShown(m) /\ canSubmit(m, t1, t2)
           /\ ValidScores(parsed(t1), parsed(t2))
    [] op = "resolveDispute" ->
         \E t1, t2 \in InputTexts :
           /\ ResolveShown(a, m) /\ canResolveSubmit(a, m, t1, t2)
           /\ ValidScores(parsed(t1), parsed(t2))
    [] op \in {"confirmScore", "disputeScore"} ->
         ConfirmShown(m, canCurrentUserConfirm(a, m)) /\ hasScore(m)
    [] op = "assignMatchToCourt" ->
         isOrganizer(a) /\ m \in waitingMatches /\ c \in availableCourts
    [] op = "startMatchOnCourt" ->
         /\ isOrganizer(a) /\ StartOnCourtShown(c)
         /\ getMatchForCourt(c) # Null
         /\ match[getMatchForCourt(c)].status = "pending"
    [] op = "finishMatchOnCourt" ->
         /\ isOrganizer(a) /\ FinishOnCourtShown(c)
         /\ getMatchForCourt(c) # Null
         /\ match[getMatchForCourt(c)].status = "completed"

\* the match and the court a call in flight is about
MatchOf(k) == IF k.match = Null THEN CHOOSE m \in DOMAIN match : TRUE ELSE k.match

CourtOf(k) == IF k.court = Null THEN CHOOSE c \in DOMAIN court : TRUE ELSE k.court

\* C29: a retry of an operation that already committed is harmless: for each
\* of startMatch, submitScore, confirmScore, disputeScore, resolveDispute,
\* assignMatchToCourt, startMatchOnCourt and finishMatchOnCourt, once the
\* last write of a call has landed the same call by the same actor on the
\* same match and court is not accepted: only a call that would be accepted
\* joins the calls in flight, and joining them writes no Match and no Court.
C29_RetryRefused ==
  [][/\ \A k \in pending \ pending' : \A now \in 1..MaxClock :
          (k.op \in RetriedOps /\ Len(k.writes) = 1 /\ CommitWrite(k, now))
            => ~Readmitted(k.actor, k.op, MatchOf(k), CourtOf(k))'
     /\ \A k \in Accepted :
          k.op \in RetriedOps
            => Readmitted(k.actor, k.op, MatchOf(k), CourtOf(k))
     /\ Accepted # {} => UNCHANGED << match, court >>]_vars

\* C29: every operation of a match's round on a court has committed, the
\* release last, and none of them would be accepted again
C29_Witness ==
  \E m \in DOMAIN match, c \in DOMAIN court :
    /\ match[m].status = "completed"
    /\ match[m].score1 # NoScore
    /\ match[m].courtId = Null
    /\ match[m].lastUpdatedAt > 0
    /\ court[c].status = "AVAILABLE"
    /\ court[c].currentMatchId = Null
    /\ pending = {}
    /\ \A a \in Actors, op \in RetriedOps : ~Readmitted(a, op, m, c)

\* C30: MatchCard emits a score action only in the matching status: a
\* submission only when both inputs parse to integers and the match is
\* pending or in_progress, or when it is disputed and the user is an
\* organizer; a confirmation or a dispute only when the match is
\* pending_confirmation, both stored scores are non-null and canConfirm is
\* true, and it carries the stored scores unchanged; a start only when the
\* match is pending and canCurrentUserStart is true.
C30_EmitsInStatus ==
  [][\A k \in Accepted :
       LET m == k.match
           w == k.writes[1].data
       IN  /\ k.op = "submitScore"
                => /\ match[m].status \in {"pending", "in_progress"}
                   /\ w.score1 # NaN /\ w.score2 # NaN
                   /\ \E t1, t2 \in InputTexts :
                        /\ scoresFilled(t1, t2)
                        /\ w.score1 = parsed(t1) /\ w.score2 = parsed(t2)
           /\ k.op = "resolveDispute"
                => /\ match[m].status = "disputed"
                   /\ isOrganizer(k.actor)
                   /\ w.score1 # NaN /\ w.score2 # NaN
                   /\ \E t1, t2 \in InputTexts :
                        /\ scoresFilled(t1, t2)
                        /\ w.score1 = parsed(t1) /\ w.score2 = parsed(t2)
           /\ k.op \in {"confirmScore", "disputeScore"}
                => /\ match[m].status = "pending_confirmation"
                   /\ match[m].score1 # NoScore /\ match[m].score2 # NoScore
                   /\ canCurrentUserConfirm(k.actor, m)
                   /\ orZero(match[m].score1) = match[m].score1
                   /\ orZero(match[m].score2) = match[m].score2
           /\ k.op = "startMatch"
                => /\ match[m].status = "pending"
                   /\ canCurrentUserStart(k.actor, m)]_vars

\* C30: the card of a disputed match has emitted the organizer's
\* resubmission, after a start, a submission and a dispute were emitted
C30_Witness ==
  \E k \in pending :
    /\ k.op = "resolveDispute"
    /\ match[k.match].status = "disputed"
    /\ match[k.match].score1 # NoScore
    /\ match[k.match].submittedBy # Null

(* ------------- the event selection of the registration wizard ---------- *)

\* number of saveRegistration calls of handleSave that may be on their way
MaxSaving == 2

\* the day the wizard is used: new Date()
Today == [y |-> 2026, m |-> 6, d |-> 15]

\* a profile without a birth date, or with one that does not parse
NoDate == [y |-> 0, m |-> 0, d |-> 0]

\* a profile without the DUPR rating asked for
NoRating == 0 - 1

\* the divisions of the tournament; a limit of 0 is a limit not set
divisions ==
  [d \in {"d1", "d2", "d3"} |->
     CASE d = "d1" -> [type |-> "doubles", gender |-> "open",
                       minAge |-> 0, maxAge |-> 0,
                       minRating |-> 0, maxRating |-> 0]
       [] d = "d2" -> [type |-> "doubles", gender |-> "women",
                       minAge |-> 36, maxAge |-> 0,
                       minRating |-> 0, maxRating |-> 0]
       [] d = "d3" -> [type |-> "singles", gender |-> "men",
                       minAge |-> 0, maxAge |-> 0,
                       minRating |-> 4, maxRating |-> 0]]

\* the profiles the wizard may be opened with; the one without an id is a
\* user whose profile has not loaded
Users ==
  [id : {"u1"}, gender : {"male", "female"},
   birthDate : {NoDate, [y |-> 1990, m |-> 6, d |-> 15],
                [y |-> 1990, m |-> 6, d |-> 16]},
   duprDoublesRating : {NoRating},
   duprSinglesRating : {NoRating, 3, 5}]
  \cup
  [id : {""}, gender : {"male"}, birthDate : {NoDate},
   duprDoublesRating : {NoRating}, duprSinglesRating : {NoRating}]

\* the elements of a list
Range(seq) == { seq[i] : i \in 1..Len(seq) }

\* a list without a repeated element
NoDuplicates(seq) ==
  \A i, j \in 1..Len(seq) : seq[i] = seq[j] => i = j

\* current.filter(x => x !== id)
Without(seq, id) == SelectSeq(seq, LAMBDA x : x # id)

\* the lists of distinct division ids
Selections ==
  { seq \in UNION { [1..n -> DOMAIN divisions] : n \in 0..3 } :
      NoDuplicates(seq) }

\* getAge: whole years from the birth date to today, null without a date
getAge(birthDate) ==
  IF birthDate = NoDate THEN NoRating
  ELSE LET age == Today.y - birthDate.y
           m == Today.m - birthDate.m
       IN  IF m < 0 \/ (m = 0 /\ Today.d < birthDate.d)
           THEN age - 1
           ELSE age

\* checkEligibility(div, user).eligible
checkEligibility(div, user) ==
  LET age == getAge(user.birthDate)
      userRating == IF div.type = "doubles"
                    THEN user.duprDoublesRating
                    ELSE user.duprSinglesRating
  IN  IF div.gender = "men" /\ user.gender # "male" THEN FALSE
      ELSE IF div.gender = "women" /\ user.gender # "female" THEN FALSE
      ELSE IF (div.minAge # 0 \/ div.maxAge # 0) /\ age = NoRating THEN FALSE
      ELSE IF (div.minAge # 0 \/ div.maxAge # 0)
              /\ div.minAge # 0 /\ age < div.minAge THEN FALSE
      ELSE IF (div.minAge # 0 \/ div.maxAge # 0)
              /\ div.maxAge # 0 /\ age > div.maxAge THEN FALSE
      ELSE IF (div.minRating # 0 \/ div.maxRating # 0)
              /\ userRating = NoRating THEN FALSE
      ELSE IF (div.minRating # 0 \/ div.maxRating # 0)
              /\ div.minRating # 0 /\ userRating < div.minRating THEN FALSE
      ELSE IF (div.minRating # 0 \/ div.maxRating # 0)
              /\ div.maxRating # 0 /\ userRating > div.maxRating THEN FALSE
      ELSE TRUE

\* a registration just created by initRegistration
NewRegistration(selected) ==
  [selectedEventIds |-> selected, waiverAccepted |-> FALSE,
   status |-> "in_progress"]

\* getRegistration: the stored document, or null
getRegistration == registration

\* saveRegistration(reg) is called: the document is on its way
saveRegistration(by, reg) == saving' = saving \cup {[by |-> by, reg |-> reg]}

\* initRegistration up to its first await's result: without a user id it
\* returns; it creates the registration when there is none, adds the invited
\* division to one that lacks it, and saves in both cases; otherwise it
\* hands the stored registration to the component
initRegistration ==
  /\ initAt = "start"
  /\ LET reg == getRegistration
     IN  IF userProfile.id = ""
         THEN /\ initAt' = "returned"
              /\ UNCHANGED << regData, loading, saving >>
         ELSE IF reg = NoRegistration
         THEN /\ saveRegistration("initRegistration",
                   NewRegistration(IF initialDivisionId # Null
                                   THEN << initialDivisionId >>
                                   ELSE << >>))
              /\ initAt' = "saving"
              /\ UNCHANGED << regData, loading >>
         ELSE IF /\ initialDivisionId # Null
                 /\ initialDivisionId \notin Range(reg.selectedEventIds)
         THEN /\ saveRegistration("initRegistration",
                   [reg EXCEPT !.selectedEventIds =
                                  Append(@, initialDivisionId)])
              /\ initAt' = "saving"
              /\ UNCHANGED << regData, loading >>
         ELSE /\ regData' = reg
              /\ loading' = FALSE
              /\ initAt' = "done"
              /\ UNCHANGED saving
  /\ UNCHANGED << initialDivisionId, userProfile, registration,
                  tournamentVars, roleVars >>

\* the saveRegistration awaited by initRegistration resolves: setRegData(reg),
\* setLoading(false)
initRegistrationSaved ==
  /\ initAt = "saving"
  /\ \E k \in saving :
       /\ k.by = "initRegistration"
       /\ registration' = k.reg
       /\ regData' = k.reg
       /\ saving' = saving \ {k}
  /\ loading' = FALSE
  /\ initAt' = "done"
  /\ UNCHANGED << initialDivisionId, userProfile, tournamentVars, roleVars >>

\* the saveRegistration awaited by initRegistration rejects: the component
\* keeps loading
initRegistrationFailed ==
  /\ initAt = "saving"
  /\ saving' = { k \in saving : k.by # "initRegistration" }
  /\ initAt' = "failed"
  /\ UNCHANGED << initialDivisionId, userProfile, regData, loading,
                  registration, tournamentVars, roleVars >>

\* a slip: the invited division toggles like any other
onClick_NoInvitedGuard(current, id) ==
  IF ~checkEligibility(divisions[id], userProfile)
  THEN [saves |-> FALSE, nextSelected |-> current]
  ELSE [saves |-> TRUE,
        nextSelected |-> IF id \in Range(current)
                         THEN Without(current, id)
                         ELSE Append(current, id)]

\* the division's onClick: whether it reaches handleSave, and the
\* selection it hands to it (the current one when it returns early)
onClick(current, id) ==
  IF ~checkEligibility(divisions[id], userProfile)
  THEN [saves |-> FALSE, nextSelected |-> current]
  ELSE IF initialDivisionId # Null /\ id = initialDivisionId
          /\ id \in Range(current)
  THEN [saves |-> FALSE, nextSelected |-> current]
  ELSE [saves |-> TRUE,
        nextSelected |-> IF id \in Range(current)
                         THEN Without(current, id)
                         ELSE Append(current, id)]

\* handleSave(updates): setRegData({...regData, ...updates}), then
\* saveRegistration of the same
handleSave(updates) ==
  IF regData = NoRegistration
  THEN UNCHANGED << regData, saving >>
  ELSE /\ regData' = Merge(regData, updates)
       /\ saveRegistration("handleSave", Merge(regData, updates))

\* a click on a division of the list; the list is rendered once loading is
\* over and regData is set
ClickDivision(id) ==
  /\ ~loading /\ regData # NoRegistration
  /\ Cardinality(saving) < MaxSaving
  /\ LET click == onClick(regData.selectedEventIds, id)
     IN  IF click.saves
         THEN handleSave([selectedEventIds |-> click.nextSelected])
         ELSE UNCHANGED << regData, saving >>
  /\ UNCHANGED << initialDivisionId, userProfile, loading, initAt,
                  registration, tournamentVars, roleVars >>

\* a saveRegistration of handleSave reaches the database
SaveLands(k) ==
  /\ k \in saving /\ k.by = "handleSave"
  /\ registration' = k.reg
  /\ saving' = saving \ {k}
  /\ UNCHANGED << initialDivisionId, userProfile, regData, loading, initAt,
                  tournamentVars, roleVars >>

\* a saveRegistration of handleSave rejects
SaveFails(k) ==
  /\ k \in saving /\ k.by = "handleSave"
  /\ saving' = saving \ {k}
  /\ UNCHANGED << initialDivisionId, userProfile, regData, loading, initAt,
                  registration, tournamentVars, roleVars >>

\* the component is mounted for some user, with or without an invited
\* division, on a registration that is absent or was saved by the wizard
InitSelection ==
  /\ InitWith({}, {}, 0)
  /\ NoRoleCalls
  /\ initialDivisionId \in {Null} \cup DOMAIN divisions
  /\ userProfile \in Users
  /\ regData = NoRegistration
  /\ loading = TRUE
  /\ initAt = "start"
  /\ registration \in
       {NoRegistration} \cup { NewRegistration(sel) : sel \in Selections }
  /\ saving = {}

NextSelection ==
  \/ initRegistration
  \/ initRegistrationSaved
  \/ initRegistrationFailed
  \/ \E id \in DOMAIN divisions : ClickDivision(id)
  \/ \E k \in saving : SaveLands(k)
  \/ \E k \in saving : SaveFails(k)

\* the event selection of one user on one tournament
SpecSelection == InitSelection /\ [][NextSelection]_vars

\* C31: once initRegistration has completed with an initialDivisionId, every
\* click sequence keeps initialDivisionId in regData.selectedEventIds; a
\* click on an ineligible division never changes selectedEventIds; and two
\* clicks on an eligible division that is not the invited one restore the
\* previous selection set, without duplicates.
C31_InvitedStays ==
  [][/\ (initAt' = "done" /\ initialDivisionId # Null)
          => initialDivisionId \in Range(regData'.selectedEventIds)
     /\ \A id \in DOMAIN divisions :
          ClickDivision(id)
            => LET current == regData.selectedEventIds
                   once == regData'.selectedEventIds
                   twice == onClick(once, id).nextSelected
               IN  /\ once = onClick(current, id).nextSelected
                   /\ ~checkEligibility(divisions[id], userProfile)
                        => once = current
                   /\ (checkEligibility(divisions[id], userProfile)
                       /\ id # initialDivisionId)
                        => /\ Range(once) # Range(current)
                           /\ Range(twice) = Range(current)
                           /\ NoDuplicates(once)
                           /\ NoDuplicates(twice)]_vars

\* C31: an invited user has deselected another division and selected a
\* third one, the invited division still selected
C31_Witness ==
  /\ initAt = "done"
  /\ initialDivisionId # Null
  /\ registration # NoRegistration
  /\ regData # NoRegistration
  /\ initialDivisionId \in Range(regData.selectedEventIds)
  /\ Len(regData.selectedEventIds) >= 2
  /\ Range(regData.selectedEventIds) # Range(registration.selectedEventIds)
  /\ \E id \in DOMAIN divisions : ~checkEligibility(divisions[id], userProfile)

(* ----------------- role management, services/firebase.ts --------------- *)

\* number of updateRole calls in a run
MaxRoleCalls == 3

\* updateRole(uid, role, action) is called: getDoc(userRef) is on its way
updateRole(role, action) ==
  /\ roleCallsMade < MaxRoleCalls
  /\ roleCallsMade' = roleCallsMade + 1
  /\ roleCalls' = roleCalls \cup
       {[id |-> roleCallsMade + 1, role |-> role, action |-> action,
         at |-> "getDoc", newRoles |-> << >>]}
  /\ UNCHANGED << userDoc, lastCompleted, tournamentVars, selectionVars >>

\* the roles updateRole writes, from the roles it has read
newRoles(currentRoles, role, action) ==
  IF action = "add"
  THEN IF role \notin Range(currentRoles)
       THEN Append(currentRoles, role)
       ELSE currentRoles
  ELSE Without(currentRoles, role)

\* getDoc resolves with the document as it is now: without a document the
\* call returns, otherwise it computes newRoles and issues updateDoc
updateRoleRead(k) ==
  /\ k \in roleCalls /\ k.at = "getDoc"
  /\ roleCalls' =
       IF ~userDoc.exists
       THEN roleCalls \ {k}
       ELSE (roleCalls \ {k}) \cup
              {[k EXCEPT !.at = "updateDoc",
                         !.newRoles = newRoles(userDoc.roles, k.role, k.action)]}
  /\ UNCHANGED << userDoc, roleCallsMade, lastCompleted, tournamentVars,
                  selectionVars >>

\* updateDoc(userRef, { roles: newRoles, ... }) reaches the database and the
\* call completes
updateRoleWrite(k) ==
  /\ k \in roleCalls /\ k.at = "updateDoc"
  /\ userDoc' = [userDoc EXCEPT !.roles = k.newRoles]
  /\ roleCalls' = roleCalls \ {k}
  /\ lastCompleted' = [lastCompleted EXCEPT ![k.role] = k.action]
  /\ UNCHANGED << roleCallsMade, tournamentVars, selectionVars >>

\* updateDoc rejects: the call ends with an error, nothing is written
updateRoleFails(k) ==
  /\ k \in roleCalls /\ k.at = "updateDoc"
  /\ roleCalls' = roleCalls \ {k}
  /\ UNCHANGED << userDoc, roleCallsMade, lastCompleted, tournamentVars,
                  selectionVars >>

\* a user with or without a document, with some roles, nobody changing them
InitRoles ==
  /\ InitWith({}, {}, 0)
  /\ NoSelection
  /\ userDoc \in [exists : BOOLEAN,
               roles : {<< >>, << "player" >>, << "player", "organizer" >>}]
  /\ roleCalls = {}
  /\ roleCallsMade = 0
  /\ lastCompleted = [r \in Roles |-> "none"]

\* promoteTo... and demoteFrom... called from any session at any time
NextRoles ==
  \/ \E role \in Roles, action \in {"add", "remove"} :
       updateRole(role, action)
  \/ \E k \in roleCalls : updateRoleRead(k)
  \/ \E k \in roleCalls : updateRoleWrite(k)
  \/ \E k \in roleCalls : updateRoleFails(k)

SpecRoles == InitRoles /\ [][NextRoles]_vars

\* C32: role updates are not lost and never duplicate: once every call of a
\* run of concurrent promotions and demotions of one user has completed,
\* the stored roles list has no duplicate entry and contains every role
\* whose last completed call was a promotion.
C32_NoLostRoleUpdate ==
  roleCalls = {}
    => /\ NoDuplicates(userDoc.roles)
       /\ \A r \in Roles :
            lastCompleted[r] = "add" => r \in Range(userDoc.roles)

\* whatever the interleaving, the stored roles list has no duplicate entry
RolesNeverDuplicate == NoDuplicates(userDoc.roles)

====
